---- MODULE Spec2Model ----
(***************************************************************************)
(* Model of codex-rs/tui/src/spawn_terminal.rs: the terminal detector      *)
(* (detect_terminal_type), the command builder (build_terminal_command)    *)
(* and the spawner (spawn_terminal_with_codex).                            *)
(*                                                                         *)
(* Text that the code inspects character by character (the values of the   *)
(* environment variables) is a sequence of one-character strings; text the *)
(* code only passes on (program names, flags, paths, arguments) is a       *)
(* string.                                                                 *)
(***************************************************************************)
EXTENDS Naturals, Sequences, FiniteSets

VARIABLES env, onPath, codex_args, cwd, pc, codex_binary, terminal_type,
          cmd, probes, attempts, launched, child, result

vars == <<env, onPath, codex_args, cwd, pc, codex_binary, terminal_type,
          cmd, probes, attempts, launched, child, result>>

\* ------------------------------------------------------------------ bounds

\* Longest forwarded argument list drawn for the command builder.
MaxArgs == 2

\* Most environment variables set at once in a run of the whole spawner.
MaxMarkers == 1

\* ------------------------------------------------------- the environment

EnvVars == {"TERM_PROGRAM", "VSCODE_GIT_IPC_HANDLE", "GHOSTTY_RESOURCES_DIR",
            "WEZTERM_EXECUTABLE", "KITTY_WINDOW_ID", "ALACRITTY_SOCKET",
            "TERM", "KONSOLE_VERSION", "GNOME_TERMINAL_SCREEN"}

\* A variable of the process environment is absent, holds bytes that are
\* not valid Unicode, or holds text.
Unset == [state |-> "unset", val |-> <<>>]
Bytes == [state |-> "bytes", val |-> <<>>]
Text(s) == [state |-> "text", val |-> s]

s_ghostty == <<"g", "h", "o", "s", "t", "t", "y">>
s_vscode == <<"v", "s", "c", "o", "d", "e">>
s_wezterm == <<"w", "e", "z", "t", "e", "r", "m">>
s_alacritty == <<"a", "l", "a", "c", "r", "i", "t", "t", "y">>

TermProgramValues ==
    {Unset, Bytes,
     Text(<<"G", "h", "o", "s", "t", "t", "y">>),
     Text(s_vscode),
     Text(<<"W", "E", "Z", "T", "E", "R", "M">>),
     Text(<<"k", "i", "t", "t", "y">>)}

TermValues ==
    {Unset, Bytes,
     Text(s_alacritty),
     Text(<<"A", "l", "a", "c", "r", "i", "t", "t", "y">>),
     Text(<<"x", "t", "e", "r", "m">>)}

MarkerValues == {Unset, Bytes, Text(<<>>)}

AllEnvs ==
    [TERM_PROGRAM : TermProgramValues,
     VSCODE_GIT_IPC_HANDLE : MarkerValues,
     GHOSTTY_RESOURCES_DIR : MarkerValues,
     WEZTERM_EXECUTABLE : MarkerValues,
     KITTY_WINDOW_ID : MarkerValues,
     ALACRITTY_SOCKET : MarkerValues,
     TERM : TermValues,
     KONSOLE_VERSION : MarkerValues,
     GNOME_TERMINAL_SCREEN : MarkerValues]

NumSet(e) == Cardinality({v \in EnvVars : e[v].state # "unset"})

\* std::env::var: Ok(text) when the variable is present and valid Unicode,
\* Err (NotPresent or NotUnicode) otherwise.
env_var(e, name) ==
    IF e[name].state = "text"
    THEN [ok |-> TRUE, val |-> e[name].val]
    ELSE [ok |-> FALSE, val |-> <<>>]

\* ---------------------------------------------------------- to_lowercase

UpperChars == <<"A", "B", "C", "D", "E", "F", "G", "H", "I", "J", "K", "L", "M",
                "N", "O", "P", "Q", "R", "S", "T", "U", "V", "W", "X", "Y", "Z">>
LowerChars == <<"a", "b", "c", "d", "e", "f", "g", "h", "i", "j", "k", "l", "m",
                "n", "o", "p", "q", "r", "s", "t", "u", "v", "w", "x", "y", "z">>

lower_char(c) ==
    IF \E i \in 1..26 : UpperChars[i] = c
    THEN LowerChars[CHOOSE i \in 1..26 : UpperChars[i] = c]
    ELSE c

\* str::to_lowercase
to_lowercase(s) == [i \in 1..Len(s) |-> lower_char(s[i])]

\* ------------------------------------------------------------ TerminalType

TerminalTypes == {"Ghostty", "VSCode", "Alacritty", "Kitty", "WezTerm",
                  "GnomeTerminal", "Konsole", "Xterm", "Unknown"}

FallbackTypes == {"VSCode", "Unknown"}
DirectTypes == TerminalTypes \ FallbackTypes

\* detect_terminal_type with one more rule, TERM = xterm -> Xterm, ahead of
\* the Konsole rule.
detect_terminal_type_XtermRule(e) ==
    LET term_program == env_var(e, "TERM_PROGRAM")
        lowered == to_lowercase(term_program.val)
        term == env_var(e, "TERM")
    IN  IF term_program.ok /\ lowered = s_ghostty THEN "Ghostty"
        ELSE IF term_program.ok /\ lowered = s_vscode THEN "VSCode"
        ELSE IF term_program.ok /\ lowered = s_wezterm THEN "WezTerm"
        ELSE IF \/ env_var(e, "VSCODE_GIT_IPC_HANDLE").ok
                \/ (term_program.ok /\ term_program.val = s_vscode)
             THEN "VSCode"
        ELSE IF env_var(e, "GHOSTTY_RESOURCES_DIR").ok THEN "Ghostty"
        ELSE IF env_var(e, "WEZTERM_EXECUTABLE").ok THEN "WezTerm"
        ELSE IF env_var(e, "KITTY_WINDOW_ID").ok THEN "Kitty"
        ELSE IF \/ env_var(e, "ALACRITTY_SOCKET").ok
                \/ (term.ok /\ term.val = s_alacritty)
             THEN "Alacritty"
        ELSE IF term.ok /\ term.val = <<"x", "t", "e", "r", "m">> THEN "Xterm"
        ELSE IF env_var(e, "KONSOLE_VERSION").ok THEN "Konsole"
        ELSE IF env_var(e, "GNOME_TERMINAL_SCREEN").ok THEN "GnomeTerminal"
        ELSE "Unknown"

\* detect_terminal_type
detect_terminal_type(e) ==
    LET term_program == env_var(e, "TERM_PROGRAM")
        lowered == to_lowercase(term_program.val)
    IN  IF term_program.ok /\ lowered = s_ghostty THEN "Ghostty"
        ELSE IF term_program.ok /\ lowered = s_vscode THEN "VSCode"
        ELSE IF term_program.ok /\ lowered = s_wezterm THEN "WezTerm"
        ELSE IF \/ env_var(e, "VSCODE_GIT_IPC_HANDLE").ok
                \/ (term_program.ok /\ term_program.val = s_vscode)
             THEN "VSCode"
        ELSE IF env_var(e, "GHOSTTY_RESOURCES_DIR").ok THEN "Ghostty"
        ELSE IF env_var(e, "WEZTERM_EXECUTABLE").ok THEN "WezTerm"
        ELSE IF env_var(e, "KITTY_WINDOW_ID").ok THEN "Kitty"
        ELSE IF \/ env_var(e, "ALACRITTY_SOCKET").ok
                \/ LET term == env_var(e, "TERM")
                   IN  term.ok /\ term.val = s_alacritty
             THEN "Alacritty"
        ELSE IF env_var(e, "KONSOLE_VERSION").ok THEN "Konsole"
        ELSE IF env_var(e, "GNOME_TERMINAL_SCREEN").ok THEN "GnomeTerminal"
        ELSE "Unknown"

\* ------------------------------------------------- tokio::process::Command

Programs == {"ghostty", "alacritty", "kitty", "wezterm", "gnome-terminal",
             "konsole", "xterm"}

NoDir == "<none>"

\* Command::new: no arguments, the caller's working directory, inherited
\* streams.
NewCommand(program) ==
    [program |-> program, args |-> <<>>, current_dir |-> NoDir,
     stdin |-> "inherit", stdout |-> "inherit", stderr |-> "inherit"]

\* Command::arg
arg(c, a) == [c EXCEPT !.args = Append(@, a)]

\* Command::args
args(c, as) == [c EXCEPT !.args = @ \o as]

NoCmd == NewCommand("")

\* which::which(program).is_ok()
which(path, program) == program \in path

\* The record of one search-path probe and its answer.
Found(program) == [program |-> program, found |-> TRUE]
Missing(program) == [program |-> program, found |-> FALSE]

\* std::io::Result<Command>, together with the search-path probes made on
\* the way (in order).
BuildOk(c, probed) ==
    [ok |-> TRUE, cmd |-> c, kind |-> "", msg |-> "", probes |-> probed]
BuildErr(kind, msg, probed) ==
    [ok |-> FALSE, cmd |-> NoCmd, kind |-> kind, msg |-> msg, probes |-> probed]

\* ------------------------------------------------- build_terminal_command

GhosttyArm(bin, as) ==
    BuildOk(args(arg(NewCommand("ghostty"), bin), as), <<>>)

\* The VSCode arm without its xterm branch.
VSCodeArm_NoXterm(bin, as, path) ==
    IF which(path, "gnome-terminal")
    THEN BuildOk(args(arg(arg(NewCommand("gnome-terminal"), "--"), bin), as),
                 <<Found("gnome-terminal")>>)
    ELSE IF which(path, "konsole")
    THEN BuildOk(args(arg(arg(NewCommand("konsole"), "-e"), bin), as),
                 <<Missing("gnome-terminal"), Found("konsole")>>)
    ELSE BuildErr("NotFound",
                  "No suitable terminal emulator found for VS Code environment",
                  <<Missing("gnome-terminal"), Missing("konsole")>>)

\* The VSCode arm giving gnome-terminal konsole's flag.
VSCodeArm_GnomeDashE(bin, as, path) ==
    IF which(path, "gnome-terminal")
    THEN BuildOk(args(arg(arg(NewCommand("gnome-terminal"), "-e"), bin), as),
                 <<Found("gnome-terminal")>>)
    ELSE IF which(path, "konsole")
    THEN BuildOk(args(arg(arg(NewCommand("konsole"), "-e"), bin), as),
                 <<Missing("gnome-terminal"), Found("konsole")>>)
    ELSE IF which(path, "xterm")
    THEN BuildOk(args(arg(arg(NewCommand("xterm"), "-e"), bin), as),
                 <<Missing("gnome-terminal"), Missing("konsole"),
                   Found("xterm")>>)
    ELSE BuildErr("NotFound",
                  "No suitable terminal emulator found for VS Code environment",
                  <<Missing("gnome-terminal"), Missing("konsole"),
                    Missing("xterm")>>)

VSCodeArm(bin, as, path) ==
    IF which(path, "gnome-terminal")
    THEN BuildOk(args(arg(arg(NewCommand("gnome-terminal"), "--"), bin), as),
                 <<Found("gnome-terminal")>>)
    ELSE IF which(path, "konsole")
    THEN BuildOk(args(arg(arg(NewCommand("konsole"), "-e"), bin), as),
                 <<Missing("gnome-terminal"), Found("konsole")>>)
    ELSE IF which(path, "xterm")
    THEN BuildOk(args(arg(arg(NewCommand("xterm"), "-e"), bin), as),
                 <<Missing("gnome-terminal"), Missing("konsole"),
                   Found("xterm")>>)
    ELSE BuildErr("NotFound",
                  "No suitable terminal emulator found for VS Code environment",
                  <<Missing("gnome-terminal"), Missing("konsole"),
                    Missing("xterm")>>)

\* The Alacritty arm forwarding the arguments ahead of the executable.
AlacrittyArm_ArgsFirst(bin, as) ==
    BuildOk(arg(args(arg(NewCommand("alacritty"), "-e"), as), bin), <<>>)

AlacrittyArm(bin, as) ==
    BuildOk(args(arg(arg(NewCommand("alacritty"), "-e"), bin), as), <<>>)

KittyArm(bin, as) ==
    BuildOk(args(arg(NewCommand("kitty"), bin), as), <<>>)

WezTermArm(bin, as) ==
    BuildOk(args(arg(arg(arg(NewCommand("wezterm"), "start"), "--"), bin), as),
            <<>>)

GnomeTerminalArm(bin, as) ==
    BuildOk(args(arg(arg(NewCommand("gnome-terminal"), "--"), bin), as), <<>>)

KonsoleArm(bin, as) ==
    BuildOk(args(arg(arg(NewCommand("konsole"), "-e"), bin), as), <<>>)

XtermArm(bin, as) ==
    BuildOk(args(arg(arg(NewCommand("xterm"), "-e"), bin), as), <<>>)

\* The Unknown arm probing konsole ahead of gnome-terminal.
UnknownArm_KonsoleFirst(bin, as, path) ==
    IF which(path, "konsole")
    THEN BuildOk(args(arg(arg(NewCommand("konsole"), "-e"), bin), as),
                 <<Found("konsole")>>)
    ELSE IF which(path, "gnome-terminal")
    THEN BuildOk(args(arg(arg(NewCommand("gnome-terminal"), "--"), bin), as),
                 <<Missing("konsole"), Found("gnome-terminal")>>)
    ELSE IF which(path, "xterm")
    THEN BuildOk(args(arg(arg(NewCommand("xterm"), "-e"), bin), as),
                 <<Missing("konsole"), Missing("gnome-terminal"),
                   Found("xterm")>>)
    ELSE BuildErr("NotFound", "No suitable terminal emulator found",
                  <<Missing("konsole"), Missing("gnome-terminal"),
                    Missing("xterm")>>)

UnknownArm(bin, as, path) ==
    IF which(path, "gnome-terminal")
    THEN BuildOk(args(arg(arg(NewCommand("gnome-terminal"), "--"), bin), as),
                 <<Found("gnome-terminal")>>)
    ELSE IF which(path, "konsole")
    THEN BuildOk(args(arg(arg(NewCommand("konsole"), "-e"), bin), as),
                 <<Missing("gnome-terminal"), Found("konsole")>>)
    ELSE IF which(path, "xterm")
    THEN BuildOk(args(arg(arg(NewCommand("xterm"), "-e"), bin), as),
                 <<Missing("gnome-terminal"), Missing("konsole"),
                   Found("xterm")>>)
    ELSE BuildErr("NotFound", "No suitable terminal emulator found",
                  <<Missing("gnome-terminal"), Missing("konsole"),
                    Missing("xterm")>>)

\* build_terminal_command probing for the detected terminal's own program
\* and taking the fallback chain when it is not on the search path.
build_terminal_command_ProbeDetected(tt, bin, as, path) ==
    LET direct == CASE tt = "Ghostty" -> GhosttyArm(bin, as)
                    [] tt = "Alacritty" -> AlacrittyArm(bin, as)
                    [] tt = "Kitty" -> KittyArm(bin, as)
                    [] tt = "WezTerm" -> WezTermArm(bin, as)
                    [] tt = "GnomeTerminal" -> GnomeTerminalArm(bin, as)
                    [] tt = "Konsole" -> KonsoleArm(bin, as)
                    [] tt = "Xterm" -> XtermArm(bin, as)
                    [] OTHER -> UnknownArm(bin, as, path)
    IN  IF tt = "VSCode" THEN VSCodeArm(bin, as, path)
        ELSE IF tt = "Unknown" \/ which(path, direct.cmd.program) THEN direct
        ELSE UnknownArm(bin, as, path)

build_terminal_command(tt, bin, as, path) ==
    CASE tt = "Ghostty" -> GhosttyArm(bin, as)
      [] tt = "VSCode" -> VSCodeArm(bin, as, path)
      [] tt = "Alacritty" -> AlacrittyArm(bin, as)
      [] tt = "Kitty" -> KittyArm(bin, as)
      [] tt = "WezTerm" -> WezTermArm(bin, as)
      [] tt = "GnomeTerminal" -> GnomeTerminalArm(bin, as)
      [] tt = "Konsole" -> KonsoleArm(bin, as)
      [] tt = "Xterm" -> XtermArm(bin, as)
      [] tt = "Unknown" -> UnknownArm(bin, as, path)

\* ------------------------------------------------------------ the inputs

ExePaths == {"/usr/local/bin/codex", "/opt/codex"}

Tokens == {"chat", "--resume", "run"}

ArgLists == UNION {[1..n -> Tokens] : n \in 0..MaxArgs}

CallArgs == {<<"chat", "--resume">>, <<"run">>}

WorkDirs == {NoDir, "/work"}

\* ---------------------------------------------------------------- results

Pending == [status |-> "pending", kind |-> "", msg |-> ""]
Ok == [status |-> "ok", kind |-> "", msg |-> ""]
Err(kind, msg) == [status |-> "err", kind |-> kind, msg |-> msg]

\* Errors the operating system reports, as opposed to the builder's own
\* NotFound error, which carries one of the two messages above.
OsMsg == "os error"
OsErrorKinds == {"NotFound", "PermissionDenied"}

\* ------------------------------------------- spawn_terminal_with_codex

\* let codex_binary = std::env::current_exe()?;
CurrentExe ==
    /\ pc = "current_exe"
    /\ \E r \in [ok : {TRUE}, path : ExePaths, kind : {""}]
               \cup [ok : {FALSE}, path : {""}, kind : OsErrorKinds] :
          IF r.ok
          THEN /\ codex_binary' = r.path
               /\ pc' = "detect"
               /\ UNCHANGED result
          ELSE /\ result' = Err(r.kind, OsMsg)
               /\ pc' = "done"
               /\ UNCHANGED codex_binary
    /\ UNCHANGED <<env, onPath, codex_args, cwd, terminal_type, cmd, probes,
                   attempts, launched, child>>

\* let terminal_type = detect_terminal_type();
Detect ==
    /\ pc = "detect"
    /\ terminal_type' = detect_terminal_type(env)
    /\ pc' = "build"
    /\ UNCHANGED <<env, onPath, codex_args, cwd, codex_binary, cmd, probes,
                   attempts, launched, child, result>>

\* let mut cmd = build_terminal_command(&terminal_type, &codex_binary, codex_args)?;
Build ==
    /\ pc = "build"
    /\ LET r == build_terminal_command(terminal_type, codex_binary,
                                       codex_args, onPath)
       IN  /\ probes' = r.probes
           /\ IF r.ok
              THEN /\ cmd' = r.cmd
                   /\ pc' = "set_cwd"
                   /\ UNCHANGED result
              ELSE /\ result' = Err(r.kind, r.msg)
                   /\ pc' = "done"
                   /\ UNCHANGED cmd
    /\ UNCHANGED <<env, onPath, codex_args, cwd, codex_binary, terminal_type,
                   attempts, launched, child>>

\* if let Some(dir) = cwd { cmd.current_dir(dir); }
SetCwd ==
    /\ pc = "set_cwd"
    /\ cmd' = IF cwd # NoDir THEN [cmd EXCEPT !.current_dir = cwd] ELSE cmd
    /\ pc' = "stdio"
    /\ UNCHANGED <<env, onPath, codex_args, cwd, codex_binary, terminal_type,
                   probes, attempts, launched, child, result>>

\* The stream setting that leaves the error stream inherited.
SetStdio_StderrInherited ==
    /\ pc = "stdio"
    /\ cmd' = [cmd EXCEPT !.stdin = "null", !.stdout = "null"]
    /\ pc' = "spawn"
    /\ UNCHANGED <<env, onPath, codex_args, cwd, codex_binary, terminal_type,
                   probes, attempts, launched, child, result>>

\* cmd.stdin(Stdio::null()).stdout(Stdio::null()).stderr(Stdio::null())
SetStdio ==
    /\ pc = "stdio"
    /\ cmd' = [cmd EXCEPT !.stdin = "null", !.stdout = "null", !.stderr = "null"]
    /\ pc' = "spawn"
    /\ UNCHANGED <<env, onPath, codex_args, cwd, codex_binary, terminal_type,
                   probes, attempts, launched, child, result>>

\* What the operating system may answer to a launch of c: a program that is
\* not on the search path is not found; one that is there is started, or
\* refused for another reason.
SpawnOutcomes(c, path) ==
    IF c.program \in path
    THEN {Ok, Err("PermissionDenied", OsMsg)}
    ELSE {Err("NotFound", OsMsg)}

\* A launch that, when the system rejects it, goes back to the builder for
\* another candidate instead of returning the error.
Spawn_FallThrough ==
    /\ pc = "spawn"
    /\ attempts' = Append(attempts, cmd)
    /\ \E r \in SpawnOutcomes(cmd, onPath) :
          IF r.status = "ok"
          THEN /\ result' = r
               /\ launched' = Append(launched, cmd)
               /\ child' = "running"
               /\ pc' = "done"
          ELSE /\ pc' = "build"
               /\ UNCHANGED <<result, launched, child>>
    /\ UNCHANGED <<env, onPath, codex_args, cwd, codex_binary, terminal_type,
                   cmd, probes>>

\* .spawn(), whose value is the value of the call.
Spawn ==
    /\ pc = "spawn"
    /\ attempts' = Append(attempts, cmd)
    /\ \E r \in SpawnOutcomes(cmd, onPath) :
          /\ result' = r
          /\ IF r.status = "ok"
             THEN /\ launched' = Append(launched, cmd)
                  /\ child' = "running"
             ELSE UNCHANGED <<launched, child>>
    /\ pc' = "done"
    /\ UNCHANGED <<env, onPath, codex_args, cwd, codex_binary, terminal_type,
                   cmd, probes>>

\* The host: a program leaves the search path while the call is under way.
Vanish ==
    /\ pc # "done"
    /\ \E p \in onPath : onPath' = onPath \ {p}
    /\ UNCHANGED <<env, codex_args, cwd, pc, codex_binary, terminal_type, cmd,
                   probes, attempts, launched, child, result>>

\* The host: the launched terminal exits, whenever it likes.
ChildExit ==
    /\ child = "running"
    /\ child' = "exited"
    /\ UNCHANGED <<env, onPath, codex_args, cwd, pc, codex_binary,
                   terminal_type, cmd, probes, attempts, launched, result>>

\* ------------------------------------------------------- specifications

NoEnv == [v \in EnvVars |-> Unset]

Idle ==
    /\ cmd = NoCmd
    /\ probes = <<>>
    /\ attempts = <<>>
    /\ launched = <<>>
    /\ child = "none"
    /\ result = Pending

\* One call of spawn_terminal_with_codex, from entry to return.
Init ==
    /\ env \in {e \in AllEnvs : NumSet(e) <= MaxMarkers}
    /\ onPath \in SUBSET Programs
    /\ codex_args \in CallArgs
    /\ cwd \in WorkDirs
    /\ pc = "current_exe"
    /\ codex_binary = ""
    /\ terminal_type = ""
    /\ Idle

Next ==
    \/ CurrentExe
    \/ Detect
    \/ Build
    \/ SetCwd
    \/ SetStdio
    \/ Spawn
    \/ Vanish
    \/ ChildExit

Spec == Init /\ [][Next]_vars

\* The detector alone, applied to every environment.
InitDetect ==
    /\ env \in AllEnvs
    /\ onPath = {}
    /\ codex_args = <<>>
    /\ cwd = NoDir
    /\ pc = "detect"
    /\ codex_binary = ""
    /\ terminal_type = ""
    /\ Idle

NextDetect == Detect

SpecDetect == InitDetect /\ [][NextDetect]_vars

\* The command builder alone, applied to every kind, path, argument list
\* and search path.
InitBuild ==
    /\ env = NoEnv
    /\ onPath \in SUBSET Programs
    /\ codex_args \in ArgLists
    /\ cwd = NoDir
    /\ pc = "build"
    /\ codex_binary \in ExePaths
    /\ terminal_type \in TerminalTypes
    /\ Idle

NextBuild == Build

SpecBuild == InitBuild /\ [][NextBuild]_vars

\* ========================================================== the detector

\* What the specification's decision order says, stated on the environment
\* itself: a marker variable counts when it is set.
IsSet(e, name) == e[name].state # "unset"

SameLetter(c, d) ==
    \/ c = d
    \/ \E i \in 1..26 : {c, d} = {UpperChars[i], LowerChars[i]}

EqualsIgnoreCase(s, t) ==
    /\ Len(s) = Len(t)
    /\ \A i \in 1..Len(s) : SameLetter(s[i], t[i])

TermProgramIs(e, name) ==
    /\ e["TERM_PROGRAM"].state = "text"
    /\ EqualsIgnoreCase(e["TERM_PROGRAM"].val, name)

TermIsAlacritty(e) ==
    /\ e["TERM"].state = "text"
    /\ e["TERM"].val = s_alacritty

\* The rules 1 to 8 in their fixed order (rule 1 has three names).
DecisionOrder(e) ==
    << [match |-> TermProgramIs(e, s_ghostty), kind |-> "Ghostty"],
       [match |-> TermProgramIs(e, s_vscode), kind |-> "VSCode"],
       [match |-> TermProgramIs(e, s_wezterm), kind |-> "WezTerm"],
       [match |-> IsSet(e, "VSCODE_GIT_IPC_HANDLE"), kind |-> "VSCode"],
       [match |-> IsSet(e, "GHOSTTY_RESOURCES_DIR"), kind |-> "Ghostty"],
       [match |-> IsSet(e, "WEZTERM_EXECUTABLE"), kind |-> "WezTerm"],
       [match |-> IsSet(e, "KITTY_WINDOW_ID"), kind |-> "Kitty"],
       [match |-> IsSet(e, "ALACRITTY_SOCKET") \/ TermIsAlacritty(e),
        kind |-> "Alacritty"],
       [match |-> IsSet(e, "KONSOLE_VERSION"), kind |-> "Konsole"],
       [match |-> IsSet(e, "GNOME_TERMINAL_SCREEN"), kind |-> "GnomeTerminal"] >>

Matching(e) == {i \in 1..Len(DecisionOrder(e)) : DecisionOrder(e)[i].match}

FirstMatch(e) ==
    DecisionOrder(e)[CHOOSE i \in Matching(e) : \A j \in Matching(e) : i <= j]

Detected == pc # "detect" /\ pc # "current_exe"

\* No variable of the environment holds bytes that are not valid Unicode.
AllText(e) == \A v \in EnvVars : e[v].state # "bytes"

\* C1: whenever one of the rules 1 to 8 matches, the detector returns one
\* TerminalType, the kind of the first rule that matches in the fixed order;
\* markers of later rules never change the result.
C1_FirstMatchingRule ==
    Detected =>
        /\ terminal_type \in TerminalTypes
        /\ Matching(env) # {} => terminal_type = FirstMatch(env).kind

\* C1, for environments whose values are all valid Unicode: there the
\* detector does return the kind of the first matching rule.
C1_FirstMatchingRuleOnText ==
    (Detected /\ AllText(env)) =>
        /\ terminal_type \in TerminalTypes
        /\ Matching(env) # {} => terminal_type = FirstMatch(env).kind

\* TERM_PROGRAM names ghostty in mixed case while the Kitty marker is set,
\* and the detector has answered Ghostty.
C1_NestedMarkers ==
    /\ Detected
    /\ AllText(env)
    /\ TermProgramIs(env, s_ghostty)
    /\ env["TERM_PROGRAM"].val # s_ghostty
    /\ IsSet(env, "KITTY_WINDOW_ID")
    /\ terminal_type = "Ghostty"

\* C2: the detector returns Unknown exactly when none of the rules 1 to 8
\* matches: TERM_PROGRAM is unset or names none of the three programs, TERM
\* is unset or is not alacritty, and none of the seven markers is set.
C2_UnknownIffNoRule ==
    Detected => (terminal_type = "Unknown" <=> Matching(env) = {})

\* C2, for environments whose values are all valid Unicode.
C2_UnknownIffNoRuleOnText ==
    (Detected /\ AllText(env)) =>
        (terminal_type = "Unknown" <=> Matching(env) = {})

\* Nothing is set and the detector has answered Unknown.
C2_EmptyEnvironment ==
    /\ Detected
    /\ env = NoEnv
    /\ terminal_type = "Unknown"

\* ===================================================== the command builder

\* The table of the specification: program and prefix arguments per kind.
TableProgram ==
    [Ghostty |-> "ghostty", Alacritty |-> "alacritty", Kitty |-> "kitty",
     WezTerm |-> "wezterm", GnomeTerminal |-> "gnome-terminal",
     Konsole |-> "konsole", Xterm |-> "xterm"]

TablePrefix ==
    [Ghostty |-> <<>>, Alacritty |-> <<"-e">>, Kitty |-> <<>>,
     WezTerm |-> <<"start", "--">>, GnomeTerminal |-> <<"--">>,
     Konsole |-> <<"-e">>, Xterm |-> <<"-e">>]

\* The command the table gives for a kind.
TableCommand(kind) ==
    [program |-> TableProgram[kind],
     args |-> TablePrefix[kind] \o <<codex_binary>> \o codex_args]

FallbackOrder == <<"gnome-terminal", "konsole", "xterm">>
FallbackKind == <<"GnomeTerminal", "Konsole", "Xterm">>
FallbackPrograms == {FallbackOrder[i] : i \in 1..3}

Built == pc = "set_cwd"
BuildFailed == pc = "done" /\ result.status = "err"
BuilderNotFound ==
    /\ result.status = "err"
    /\ result.kind = "NotFound"
    /\ result.msg # OsMsg

\* C3: for every kind other than VSCode and Unknown the builder returns the
\* table's program, then the table's prefix arguments, the executable path
\* and the forwarded arguments in their original order, nothing else.
C3_TableAndForwarding ==
    (pc # "build" /\ terminal_type \in DirectTypes) =>
        /\ Built
        /\ cmd.program = TableCommand(terminal_type).program
        /\ cmd.args = TableCommand(terminal_type).args
        /\ Len(cmd.args) = Len(TablePrefix[terminal_type]) + 1 + Len(codex_args)
        /\ \A i \in 1..Len(codex_args) :
              cmd.args[Len(TablePrefix[terminal_type]) + 1 + i] = codex_args[i]

\* A wezterm command built with two different forwarded arguments.
C3_WezTermTwoArgs ==
    /\ Built
    /\ terminal_type = "WezTerm"
    /\ Len(codex_args) = 2
    /\ codex_args[1] # codex_args[2]
    /\ cmd.args = <<"start", "--", codex_binary, codex_args[1], codex_args[2]>>

\* C4: for VSCode and Unknown the builder fails with NotFound when none of
\* the three fallback programs is on the search path, and when exactly one
\* is, it builds that program's command by that program's table rule.
C4_NoneOrExactlyOne ==
    (pc # "build" /\ terminal_type \in FallbackTypes) =>
        /\ onPath \cap FallbackPrograms = {} =>
              /\ BuildFailed
              /\ BuilderNotFound
              /\ cmd = NoCmd
        /\ \A i \in 1..3 :
              onPath \cap FallbackPrograms = {FallbackOrder[i]} =>
                 /\ Built
                 /\ cmd.program = FallbackOrder[i]
                 /\ cmd.args = TableCommand(FallbackKind[i]).args

\* TERM_PROGRAM=vscode's kind with only xterm present and the arguments
\* [run]: xterm -e <exe-path> run.
C4_OnlyXterm ==
    /\ Built
    /\ terminal_type = "VSCode"
    /\ onPath \cap FallbackPrograms = {"xterm"}
    /\ codex_args = <<"run">>
    /\ cmd.program = "xterm"
    /\ cmd.args = <<"-e", codex_binary, "run">>

\* C5: for VSCode and Unknown with two or more fallback programs on the
\* search path the command is built for the first of gnome-terminal,
\* konsole, xterm that is there; a candidate is selected only if the probe
\* of every earlier candidate failed.
C5_FirstResolvable ==
    (pc # "build" /\ terminal_type \in FallbackTypes) =>
        /\ Cardinality(onPath \cap FallbackPrograms) >= 2 =>
              /\ Built
              /\ \E i \in 1..3 :
                    /\ cmd.program = FallbackOrder[i]
                    /\ FallbackOrder[i] \in onPath
                    /\ \A j \in 1..(i - 1) : FallbackOrder[j] \notin onPath
        /\ \A i \in 1..3 :
              (Built /\ cmd.program = FallbackOrder[i]) =>
                 /\ Len(probes) = i
                 /\ probes[i] = Found(FallbackOrder[i])
                 /\ \A j \in 1..(i - 1) : probes[j] = Missing(FallbackOrder[j])

\* konsole and xterm are both present, gnome-terminal is not: konsole.
C5_KonsoleOverXterm ==
    /\ Built
    /\ terminal_type = "Unknown"
    /\ onPath \cap FallbackPrograms = {"konsole", "xterm"}
    /\ cmd.program = "konsole"

OtherFallback(kind) == IF kind = "VSCode" THEN "Unknown" ELSE "VSCode"

\* C8: the VSCode arm and the Unknown arm return the same result for the
\* same inputs: the same command, or NotFound in the same cases, after the
\* same probes; only the text of the NotFound message differs.
C8_ArmsAgree ==
    (pc # "build" /\ terminal_type \in FallbackTypes) =>
        LET other == build_terminal_command(OtherFallback(terminal_type),
                                            codex_binary, codex_args, onPath)
        IN  /\ other.ok = Built
            /\ other.cmd = cmd
            /\ other.probes = probes
            /\ other.kind = result.kind
            /\ ~other.ok => other.msg # result.msg

\* The VSCode arm has failed with its own message where the Unknown arm
\* fails too.
C8_BothNotFound ==
    /\ BuildFailed
    /\ terminal_type = "VSCode"
    /\ result.msg = "No suitable terminal emulator found for VS Code environment"
    /\ ~UnknownArm(codex_binary, codex_args, onPath).ok

\* ============================================================ the spawner

AllNull(c) == c.stdin = "null" /\ c.stdout = "null" /\ c.stderr = "null"

\* C6: a call that reaches the launch launches one command, once, with its
\* three streams discarded and its working directory set to cwd exactly
\* when cwd was supplied; the call has returned the handle at the moment
\* the launch is accepted, whether or not the new process has exited.
C6_DetachedSingleLaunch ==
    /\ Len(attempts) <= 1
    /\ Len(launched) <= 1
    /\ \A i \in 1..Len(attempts) :
          /\ AllNull(attempts[i])
          /\ attempts[i].current_dir = cwd
          /\ (attempts[i].current_dir # NoDir) <=> (cwd # NoDir)
    /\ pc = "done" => Len(attempts) = (IF cmd = NoCmd THEN 0 ELSE 1)
    /\ result.status = "ok" <=> Len(launched) = 1
    /\ child # "none" <=> Len(launched) = 1
    /\ child # "none" => pc = "done" /\ result.status = "ok"

\* The call has returned a handle for a command launched in the supplied
\* directory, and the new terminal is still running.
C6_ReturnedWhileRunning ==
    /\ pc = "done"
    /\ result.status = "ok"
    /\ child = "running"
    /\ cwd # NoDir
    /\ Len(launched) = 1
    /\ launched[1].current_dir = cwd
    /\ AllNull(launched[1])

\* C7: a call makes at most one launch attempt and ends in Ok with one
\* process launched or in Err with none; a failure to resolve the
\* executable or to find a fallback terminal is returned before any
\* attempt; a launch the system rejects is returned as the system's error,
\* with no second attempt and no move to the next fallback candidate.
C7_SingleShotFailure ==
    /\ Len(attempts) <= 1
    /\ pc # "done" => result = Pending /\ launched = <<>> /\ attempts = <<>>
    /\ pc = "done" =>
          \/ result.status = "ok" /\ Len(launched) = 1 /\ attempts = launched
          \/ result.status = "err" /\ launched = <<>> /\ child = "none"
    /\ (pc = "done" /\ codex_binary = "") =>
          /\ result.status = "err"
          /\ result.msg = OsMsg
          /\ attempts = <<>>
          /\ probes = <<>>
    /\ BuilderNotFound => attempts = <<>> /\ cmd = NoCmd
    /\ (result.status = "err" /\ attempts # <<>>) =>
          /\ result.msg = OsMsg
          /\ attempts = <<cmd>>
          /\ terminal_type \in FallbackTypes =>
                /\ probes # <<>>
                /\ probes[Len(probes)] = Found(cmd.program)

\* gnome-terminal was probed and chosen, then left the search path before
\* the launch; konsole is still there; the call has returned the system's
\* NotFound after its one attempt.
C7_VanishedBeforeLaunch ==
    /\ pc = "done"
    /\ terminal_type \in FallbackTypes
    /\ result = Err("NotFound", OsMsg)
    /\ Len(attempts) = 1
    /\ attempts[1].program = "gnome-terminal"
    /\ "konsole" \in onPath
    /\ probes = <<Found("gnome-terminal")>>

\* C9: the detector never returns Xterm, so the Xterm arm of the builder is
\* never taken by the spawner; an xterm command comes only out of the
\* fallback chain of VSCode or Unknown, after the probes of gnome-terminal
\* and konsole have failed and that of xterm has succeeded.
C9_XtermOnlyByFallback ==
    /\ terminal_type # "Xterm"
    /\ \A c \in {cmd} \cup {attempts[i] : i \in 1..Len(attempts)} :
          c.program = "xterm" =>
             /\ terminal_type \in FallbackTypes
             /\ probes = <<Missing("gnome-terminal"), Missing("konsole"),
                           Found("xterm")>>

\* xterm has been launched for a terminal the detector does not know.
C9_XtermLaunched ==
    /\ pc = "done"
    /\ result.status = "ok"
    /\ terminal_type = "Unknown"
    /\ launched[1].program = "xterm"

\* C10: for the kinds other than VSCode and Unknown the builder makes no
\* probe and does not fail; when the detected terminal's program is not on
\* the search path the spawner still attempts that program, does not fall
\* back to gnome-terminal, konsole or xterm, and returns the error of the
\* launch. The builder's NotFound arises only for VSCode and Unknown.
C10_NoProbeForDetected ==
    /\ (terminal_type \in DirectTypes /\ pc \notin {"current_exe", "detect", "build"}) =>
          /\ probes = <<>>
          /\ cmd.program = TableProgram[terminal_type]
          /\ ~BuilderNotFound
    /\ (terminal_type \in DirectTypes /\ pc = "done") =>
          /\ Len(attempts) = 1
          /\ attempts[1].program = TableProgram[terminal_type]
          /\ TableProgram[terminal_type] \notin onPath =>
                result = Err("NotFound", OsMsg)
    /\ BuilderNotFound => terminal_type \in FallbackTypes

\* Kitty was detected, kitty is not on the search path although xterm is:
\* kitty was attempted and the system's error returned.
C10_KittyMissing ==
    /\ pc = "done"
    /\ terminal_type = "Kitty"
    /\ "kitty" \notin onPath
    /\ "xterm" \in onPath
    /\ Len(attempts) = 1
    /\ attempts[1].program = "kitty"
    /\ result = Err("NotFound", OsMsg)

====
